---- MODULE Spec2Model ----
(***************************************************************************)
(* ACC server status monitor (src/acc_monitor.py): one invocation fetches  *)
(* the status API, classifies the reading, decides whether to notify,      *)
(* posts to the Discord webhook, and persists the last status and a        *)
(* bounded metrics history.                                                *)
(*                                                                         *)
(* Python values are encoded as follows.                                   *)
(*   - an optional value (None or v) is the set {} or {v};                 *)
(*   - a dict is a record; a missing key is a field outside its DOMAIN;    *)
(*   - a list or tuple is a sequence;                                      *)
(*   - a 'date' string is a record [kind, age]: kind says how              *)
(*     datetime.fromisoformat treats it, age is the distance in seconds    *)
(*     between the instant it denotes and the time of the analysis;        *)
(*   - data_age_minutes is kept in tenths of a minute, the resolution      *)
(*     round(x, 1) leaves.                                                 *)
(***************************************************************************)
EXTENDS Integers, Sequences, FiniteSets, TLC

\* ---------------------------------------------------------------- bounds
MaxRuns == 2

\* ------------------------------------------------- self.config (constants)
max_acceptable_ping == 150
min_servers_expected == 1000
max_data_age_minutes == 15
warning_ping == 100
warning_servers == 1200
\* history[-200:]
HistoryCap == 200
\* data_age_minutes = 999 on a parse error
ParseErrorAge == 999
\* response.status_code == 204
HttpNoContent == 204
\* response.status_code != 200
HttpOk == 200

\* ------------------------------------------------------- optional values
None == {}
Some(v) == {v}
The(x) == CHOOSE v \in x : TRUE

\* dict.get(key, default)
Get(d, key, default) == IF key \in DOMAIN d THEN d[key] ELSE default

\* a local that has not been assigned yet
Unset == [unset |-> TRUE]

Statuses == {"UP", "DEGRADED", "DOWN", "UNKNOWN", "API_ERROR"}

\* ------------------------------------------------------------ create_api_error
create_api_error(reason, now) ==
    [success |-> FALSE, error |-> reason, timestamp |-> now,
     status |-> None, ping |-> None, servers |-> None, players |-> None]

\* ------------------------------------------------------------ fetch_api_data
\* What requests.get and response.json() can do: answer with a status code
\* and a body, or raise. Timeout and ConnectionError come from requests.get,
\* JSONDecodeError from a 200 body that is not JSON, TypeError from the item
\* assignment of line 77 on JSON that is not an object.
FetchFailures == {"Timeout", "ConnectionError", "JSONDecodeError", "TypeError"}
HttpErrorCodes == {500}

\* ExceptClauses without the final catch-all clause
ExceptClauses_no_catch_all ==
    << [class |-> "Timeout", reason |-> "API timeout"],
       [class |-> "ConnectionError", reason |-> "API connection error"],
       [class |-> "JSONDecodeError", reason |-> "API response is not valid JSON"] >>

\* the except clauses of lines 84-91, in order
ExceptClauses ==
    << [class |-> "Timeout", reason |-> "API timeout"],
       [class |-> "ConnectionError", reason |-> "API connection error"],
       [class |-> "JSONDecodeError", reason |-> "API response is not valid JSON"],
       [class |-> "Exception", reason |-> "Unexpected error"] >>

\* every exception the fetch can raise derives from Exception
IsInstance(kind, class) == class = kind \/ class = "Exception"

Handlers(kind) == {i \in DOMAIN ExceptClauses : IsInstance(kind, ExceptClauses[i].class)}

\* TRUE when no except clause catches the exception: it leaves fetch_api_data
fetch_raises(outcome) == outcome.kind # "http" /\ Handlers(outcome.kind) = {}

fetch_api_data(outcome, now) ==
    IF outcome.kind # "http"
    THEN LET first == CHOOSE i \in Handlers(outcome.kind) :
                          \A j \in Handlers(outcome.kind) : i <= j
         IN  create_api_error(ExceptClauses[first].reason, now)
    ELSE IF outcome.code # HttpOk
    THEN [success |-> FALSE, error |-> "API HTTP", timestamp |-> now]
    ELSE [success |-> TRUE] @@ outcome.body

\* ------------------------------------------------------------ data age
\* round(seconds / 60, 1) in tenths of a minute, for ages that are not an
\* exact tie between two tenths (seconds % 6 # 3).
Round1(seconds) == (seconds + 3) \div 6

\* lines 137-145 and the round() of line 154
data_age_tenths(date_str) ==
    IF date_str = None \/ The(date_str).kind = "empty"
    THEN 0
    ELSE IF The(date_str).kind = "aware"
         THEN Round1(The(date_str).age)
         ELSE ParseErrorAge * 10

\* ------------------------------------------------------------ determine_overall_status
\* A comparison of None with an int raises TypeError.
TypeError == "TypeError"

\* quality_issues with the warning thresholds in place of the critical ones
quality_issues_at_warning_level(analysis) ==
    LET ping == analysis.ping_ms
        servers == analysis.servers_count
        data_age == analysis.data_age_minutes
    IN  (IF ping = None THEN <<"ping_null">>
         ELSE IF The(ping) > warning_ping THEN <<"ping_high">>
         ELSE <<>>)
        \o (IF The(servers) < warning_servers THEN <<"servers_low">> ELSE <<>>)
        \o (IF data_age > max_data_age_minutes * 10 THEN <<"data_old">> ELSE <<>>)

\* the local list 'issues' of lines 187-198
quality_issues(analysis) ==
    LET ping == analysis.ping_ms
        servers == analysis.servers_count
        data_age == analysis.data_age_minutes
    IN  (IF ping = None THEN <<"ping_null">>
         ELSE IF The(ping) > max_acceptable_ping THEN <<"ping_high">>
         ELSE <<>>)
        \o (IF The(servers) < min_servers_expected THEN <<"servers_low">> ELSE <<>>)
        \o (IF data_age > max_data_age_minutes * 10 THEN <<"data_old">> ELSE <<>>)

\* resolve_status with 'ping_null' left out of the critical single issues
resolve_status_no_ping_null(issues) ==
    IF Len(issues) = 0 THEN "UP"
    ELSE IF Len(issues) = 1 /\ issues[1] \notin {"data_old"} THEN "DEGRADED"
    ELSE "DOWN"

\* the final if/elif/else of lines 201-206
resolve_status(issues) ==
    IF Len(issues) = 0 THEN "UP"
    ELSE IF Len(issues) = 1 /\ issues[1] \notin {"ping_null", "data_old"} THEN "DEGRADED"
    ELSE "DOWN"

\* returns the status, or TypeError when line 194 compares None < int
determine_overall_status(analysis) ==
    LET api_status == analysis.api_status
    IN  IF api_status = Some(0) THEN "DOWN"
        ELSE IF api_status = Some(-1) THEN "UNKNOWN"
        ELSE IF api_status # Some(1) THEN "API_ERROR"
        ELSE IF analysis.servers_count = None THEN TypeError
        ELSE resolve_status(quality_issues(analysis))

\* ------------------------------------------------------------ identify_issues
\* An issue is the message with the number formatted into it.
Issue(text, value) == [text |-> text, value |-> value]

\* line 239 compares servers with an int whatever the status is
identify_issues_raises(analysis) == analysis.servers_count = None

\* identify_issues without the two entries for the raw status (lines 220-223)
identify_issues_raw_status_unlisted(analysis) ==
    LET api_status == analysis.api_status
        ping == analysis.ping_ms
        servers == analysis.servers_count
        data_age == analysis.data_age_minutes
        \* 'ping and ...': None and 0 are falsy
        truthy_ping == ping # None /\ The(ping) # 0
    IN  (IF ping = None /\ api_status = Some(1)
            THEN <<Issue("ACC ping unavailable", None)>>
            ELSE IF truthy_ping /\ The(ping) > max_acceptable_ping
            THEN <<Issue("ACC ping high", ping)>>
            ELSE IF truthy_ping /\ The(ping) > warning_ping
            THEN <<Issue("ACC ping warning", ping)>>
            ELSE <<>>)
        \o (IF The(servers) < min_servers_expected
            THEN <<Issue("ACC servers count low", servers)>>
            ELSE IF The(servers) < warning_servers
            THEN <<Issue("ACC servers count decreasing", servers)>>
            ELSE <<>>)
        \o (IF data_age > max_data_age_minutes * 10
            THEN <<Issue("ACC data too old", Some(data_age))>>
            ELSE <<>>)

identify_issues(analysis) ==
    LET api_status == analysis.api_status
        ping == analysis.ping_ms
        servers == analysis.servers_count
        data_age == analysis.data_age_minutes
        \* 'ping and ...': None and 0 are falsy
        truthy_ping == ping # None /\ The(ping) # 0
    IN  (IF api_status = Some(0) THEN <<Issue("ACC servers offline (API)", None)>>
         ELSE IF api_status = Some(-1) THEN <<Issue("ACC servers status unknown (API)", None)>>
         ELSE <<>>)
        \o (IF ping = None /\ api_status = Some(1)
            THEN <<Issue("ACC ping unavailable", None)>>
            ELSE IF truthy_ping /\ The(ping) > max_acceptable_ping
            THEN <<Issue("ACC ping high", ping)>>
            ELSE IF truthy_ping /\ The(ping) > warning_ping
            THEN <<Issue("ACC ping warning", ping)>>
            ELSE <<>>)
        \o (IF The(servers) < min_servers_expected
            THEN <<Issue("ACC servers count low", servers)>>
            ELSE IF The(servers) < warning_servers
            THEN <<Issue("ACC servers count decreasing", servers)>>
            ELSE <<>>)
        \o (IF data_age > max_data_age_minutes * 10
            THEN <<Issue("ACC data too old", Some(data_age))>>
            ELSE <<>>)

\* ------------------------------------------------------------ analyze_acc_status
\* the dict built at lines 147-157 (api_response_time, a wall-clock
\* measurement, is left out)
analysis_fields(api_data, now) ==
    [timestamp |-> now,
     source |-> "acc_api",
     api_status |-> Get(api_data, "status", None),
     ping_ms |-> Get(api_data, "ping", None),
     servers_count |-> Get(api_data, "servers", Some(0)),
     players_count |-> Get(api_data, "players", Some(0)),
     data_age_minutes |-> data_age_tenths(Get(api_data, "date", None)),
     down_since |-> Get(api_data, "down_since", None)]

\* TRUE when analyze_acc_status raises instead of returning
analyze_raises(api_data) ==
    /\ Get(api_data, "success", FALSE)
    /\ LET a == analysis_fields(api_data, 0)
       IN  determine_overall_status(a) = TypeError \/ identify_issues_raises(a)

analyze_acc_status(api_data, now) ==
    IF ~Get(api_data, "success", FALSE)
    THEN [status |-> "API_ERROR",
          reason |-> Get(api_data, "error", "API error"),
          timestamp |-> now,
          source |-> "api_error"]
    ELSE LET a == analysis_fields(api_data, now)
         IN  a @@ [status |-> determine_overall_status(a),
                   issues |-> identify_issues(a)]

\* ------------------------------------------------------------ create_discord_embed
\* line 260 reads analysis['api_status'] without a default: KeyError
create_discord_embed_raises(analysis) == "api_status" \notin DOMAIN analysis

Title(status) ==
    CASE status = "UP" -> "ACC SERVERS ONLINE"
      [] status = "DEGRADED" -> "ACC SERVERS DEGRADED"
      [] status = "DOWN" -> "ACC SERVERS OFFLINE"
      [] status = "UNKNOWN" -> "ACC SERVERS UNKNOWN"
      [] status = "API_ERROR" -> "ACC API ERROR"

\* issues[:5]
FirstN(s, n) == IF Len(s) <= n THEN s ELSE SubSeq(s, 1, n)

create_discord_embed(analysis) ==
    [title |-> Title(analysis.status),
     state_detected |-> analysis.status,
     api_status |-> analysis.api_status,
     last_update |-> analysis.timestamp,
     issues |-> FirstN(Get(analysis, "issues", <<>>), 5)]

\* ------------------------------------------------------------ save_metrics_history
\* LastN as history[:n]: the newest entries are the ones dropped
LastN_keeps_oldest(s, n) == IF Len(s) <= n THEN s ELSE SubSeq(s, 1, n)

\* history[-200:]
LastN(s, n) == IF Len(s) <= n THEN s ELSE SubSeq(s, Len(s) - n + 1, Len(s))

\* the list written back when load and dump both succeed
next_history(file, analysis) ==
    LET history == IF file = None THEN <<>> ELSE The(file)
    IN  LastN(Append(history, analysis), HistoryCap)

\* ------------------------------------------------------------ run: significant_change
\* lines 515-520 build a two-element tuple: (a or b or c, d)
significant_change_expr(last_status, current_status, force_env) ==
    << \/ last_status = None
       \/ last_status # Some(current_status)
       \/ current_status \in {"DOWN", "API_ERROR"},
       force_env >>

\* Truthy as all(): every element of the tuple must be true
Truthy_all(t) == \A i \in DOMAIN t : t[i]

\* 'if significant_change:': a tuple is truthy when it is not empty
Truthy(t) == Len(t) > 0

\* os.getenv('FORCE_NOTIFICATION', 'false').lower() == 'true'
Lower(str) == IF str = "True" THEN "true" ELSE str
force_flag(env) == Lower(IF env = None THEN "false" ELSE The(env)) = "true"

\* ------------------------------------------------------------ main: exit code
exit_code_of(raised, analysis) ==
    IF raised THEN 1
    ELSE IF Get(analysis, "status", "") \in {"UP", "DEGRADED", "DOWN"} THEN 0
    ELSE 1

\* exit(130) of line 561
ExitInterrupted == 130

\* main(), lines 551-564: 'except KeyboardInterrupt' comes first
main_exit_code(interrupt, raised, analysis) ==
    IF interrupt = "raised" THEN ExitInterrupted ELSE exit_code_of(raised, analysis)

\* ------------------------------------------------------------ inputs
\* A JSON member: present with a value (null is None), or not in the object.
Present(v) == [present |-> TRUE, value |-> v]
Absent == [present |-> FALSE, value |-> None]
Member(key, m) == IF m.present THEN key :> m.value ELSE [k \in {} |-> None]

Date(kind, age) == Some([kind |-> kind, age |-> age])

Body(status, ping, servers, players, date) ==
    Member("status", status) @@ Member("ping", ping) @@ Member("servers", servers)
    @@ Member("players", players) @@ Member("date", date)

Http(code, body) == [kind |-> "http", code |-> code, body |-> body]
Failure(kind) == [kind |-> kind, code |-> 0, body |-> Unset]

FailedOutcomes ==
    {Failure(k) : k \in FetchFailures} \cup {Http(c, Unset) : c \in HttpErrorCodes}

\* the readings the classifier is checked on
AllStatus == {Present(Some(1)), Present(Some(0)), Present(Some(-1)), Present(Some(2)),
              Present(None)}
AllPing == {Present(None), Present(Some(0)), Present(Some(35)), Present(Some(100)),
            Present(Some(101)), Present(Some(150)), Present(Some(151))}
AllServers == {Absent, Present(None), Present(Some(999)), Present(Some(1000)),
               Present(Some(1199)), Present(Some(1200)), Present(Some(1600))}
AllPlayers == {Present(Some(5000)), Present(None)}
AllDate == {Absent, Present(None), Present(Date("empty", 0)), Present(Date("garbage", 0)),
            Present(Date("naive", 120)), Present(Date("aware", 120)),
            Present(Date("aware", 902)), Present(Date("aware", 904)),
            Present(Date("aware", -60))}

AllOutcomes ==
    FailedOutcomes \cup
    {Http(HttpOk, Body(st, pg, sv, pl, dt)) :
        st \in AllStatus, pg \in AllPing, sv \in AllServers, pl \in AllPlayers,
        dt \in AllDate}

\* the readings a run can fetch: healthy, ping too high, reported down,
\* reported down with null counts, unknown, an unexpected status code
RunBodies ==
    {Body(Present(Some(1)), Present(Some(35)), Present(Some(1600)), Present(Some(5000)),
          Present(Date("aware", 120))),
     Body(Present(Some(1)), Present(Some(151)), Present(Some(1600)), Present(Some(5000)),
          Present(Date("aware", 120))),
     Body(Present(Some(0)), Present(None), Present(Some(0)), Present(Some(0)),
          Present(Date("aware", 120))),
     Body(Present(Some(0)), Present(None), Present(None), Present(None),
          Present(Date("aware", 120))),
     Body(Present(Some(-1)), Present(Some(35)), Present(Some(1600)), Present(Some(5000)),
          Present(Date("aware", 120))),
     Body(Present(Some(2)), Present(Some(35)), Present(Some(1600)), Present(Some(5000)),
          Present(Date("aware", 120)))}

RunOutcomes ==
    {Failure("Timeout"), Failure("TypeError")}
    \cup {Http(c, Unset) : c \in HttpErrorCodes}
    \cup {Http(HttpOk, b) : b \in RunBodies}

\* os.getenv('DISCORD_WEBHOOK_URL')
WebhookEnv == {None, Some(""), Some("https://discord.example/webhook")}
\* os.getenv('FORCE_NOTIFICATION')
ForceEnv == {None, Some("True")}
\* requests.post: a response code, or None when it raises
PostOutcomes == {Some(HttpNoContent), Some(HttpOk), None}

\* a metrics file left by n earlier runs, oldest first
Prefill(n) ==
    [i \in 1..n |-> [status |-> "API_ERROR", reason |-> "API timeout",
                     timestamp |-> i - n - 1, source |-> "api_error"]]

\* ------------------------------------------------------------ state
VARIABLES
    pc,                  \* where the invocation is: idle, fetch, analyze, decide,
                         \*   notify, save_status, metrics, exit
    runs,                \* finished invocations; also the clock datetime.now() reads
    discord_webhook,     \* self.config['discord_webhook']
    force_env,           \* the FORCE_NOTIFICATION environment variable
    api_data,            \* run(): api_data
    analysis,            \* run(): analysis
    raised,              \* an exception left run()
    last_status,         \* run(): last_status
    significant_change,  \* run(): significant_change
    sent,                \* what send_discord_notification returned
    gets,                \* requests.get calls of this invocation
    posts,               \* requests.post calls of this invocation: payload, response
    metrics_saved,       \* save_metrics_history reached its "saved" log line (438)
    status_file,         \* acc_last_status.txt: None when it does not exist
    metrics_file,        \* acc_metrics.json: None when it does not exist
    exit_code,           \* the code the last invocation exited with
    sigint,              \* Ctrl-C in this invocation: none, raised (KeyboardInterrupt
                         \*   left run()), swallowed (a bare 'except:' caught it)
    recording,           \* whether this behaviour keeps the history variables
    webhook_seen,        \* history: some run so far had a webhook URL configured
    acked,               \* history: status of the latest run whose POST returned 204
    stored,              \* history: status of the latest run whose POST returned 204
                         \*   and whose save_status wrote the file
    again,               \* a second classification of the same reading, made later
    test_analysis        \* what test_local.test_analysis_logic returned

vars == <<pc, runs, discord_webhook, force_env, api_data, analysis, raised, last_status,
          significant_change, sent, gets, posts, metrics_saved, status_file, metrics_file,
          exit_code, sigint, recording, webhook_seen, acked, stored, again, test_analysis>>

\* written only by the steps that are about them
history_vars == <<recording, webhook_seen, acked, stored>>
side_vars == <<again, test_analysis>>

locals == <<api_data, analysis, raised, last_status, significant_change, sent, gets, posts>>
env == <<discord_webhook, force_env>>
files == <<status_file, metrics_file>>

FreshLocals ==
    /\ api_data = Unset
    /\ analysis = Unset
    /\ raised = FALSE
    /\ last_status = None
    /\ significant_change = <<>>
    /\ sent = FALSE
    /\ gets = 0
    /\ posts = <<>>
    /\ metrics_saved = FALSE

Init ==
    /\ pc = "idle"
    /\ runs = 0
    /\ discord_webhook = None
    /\ force_env = None
    /\ FreshLocals
    /\ status_file \in {None, Some("UP")}
    /\ metrics_file \in {None} \cup {Some(Prefill(n)) : n \in {HistoryCap - 1, HistoryCap}}
    /\ exit_code = None
    /\ sigint = "none"
    /\ recording = FALSE
    /\ webhook_seen = FALSE
    /\ acked = None
    /\ stored = None
    /\ again = Unset
    /\ test_analysis = Unset

\* 'if not self.config['discord_webhook']': None and '' are falsy
webhook_configured(webhook) == webhook # None /\ webhook # Some("")

\* main() lines 548-552 and __init__ lines 23-42: a new process starts
Start ==
    /\ pc = "idle"
    /\ runs < MaxRuns
    /\ discord_webhook' \in WebhookEnv
    /\ force_env' \in ForceEnv
    /\ api_data' = Unset
    /\ analysis' = Unset
    /\ raised' = FALSE
    /\ last_status' = None
    /\ significant_change' = <<>>
    /\ sent' = FALSE
    /\ gets' = 0
    /\ posts' = <<>>
    /\ metrics_saved' = FALSE
    /\ exit_code' = None
    /\ sigint' = "none"
    /\ webhook_seen' = (webhook_seen \/ (recording /\ webhook_configured(discord_webhook')))
    /\ pc' = "fetch"
    /\ UNCHANGED <<runs, files, recording, acked, stored, side_vars>>

\* run() line 491; an exception no clause catches leaves run()
Fetch ==
    /\ pc = "fetch"
    /\ \E outcome \in RunOutcomes :
          IF fetch_raises(outcome)
          THEN /\ raised' = TRUE
               /\ api_data' = api_data
               /\ pc' = "exit"
          ELSE /\ raised' = FALSE
               /\ api_data' = fetch_api_data(outcome, runs)
               /\ pc' = "analyze"
    /\ gets' = gets + 1
    /\ UNCHANGED <<runs, env, analysis, last_status, significant_change, sent,
                   posts, metrics_saved, files, exit_code, sigint, history_vars, side_vars>>

\* run() line 493; a TypeError leaves run() and is caught at line 562
Analyze ==
    /\ pc = "analyze"
    /\ IF analyze_raises(api_data)
       THEN /\ raised' = TRUE
            /\ analysis' = analysis
            /\ pc' = "exit"
       ELSE /\ raised' = FALSE
            /\ analysis' = analyze_acc_status(api_data, runs)
            /\ pc' = "decide"
    /\ UNCHANGED <<runs, env, api_data, last_status, significant_change, sent, gets,
                   posts, metrics_saved, files, exit_code, sigint, history_vars, side_vars>>

\* run() lines 495-522 and 536-537, with get_last_status (444-456): the file
\* is read if it exists; a failed read gives None
Decide ==
    /\ pc = "decide"
    /\ \E readable \in BOOLEAN :
          last_status' = IF readable THEN status_file ELSE None
    /\ significant_change' =
          significant_change_expr(last_status', analysis.status, force_flag(force_env))
    /\ pc' = IF Truthy(significant_change') THEN "notify" ELSE "metrics"
    /\ UNCHANGED <<runs, env, api_data, analysis, raised, sent, gets, posts,
                   metrics_saved, files, exit_code, sigint, history_vars, side_vars>>

\* notification_sent with every HTTP response taken for a success
notification_sent_any_response(response) == response # None

\* notification_sent with every 2xx response taken for a success
notification_sent_on_2xx(response) == response \in {Some(HttpNoContent), Some(HttpOk)}

\* send_discord_notification, lines 385-416: the boolean it returns
notification_sent(response) == response = Some(HttpNoContent)

\* Notify with a second POST after a failed one
Notify_retrying ==
    /\ pc = "notify"
    /\ IF ~webhook_configured(discord_webhook) \/ create_discord_embed_raises(analysis)
       THEN /\ posts' = posts
            /\ sent' = FALSE
            /\ acked' = acked
       ELSE \E first, second \in PostOutcomes :
               LET post(response) == [json |-> create_discord_embed(analysis),
                                      response |-> response]
               IN  /\ posts' = IF notification_sent(first)
                                THEN Append(posts, post(first))
                                ELSE Append(Append(posts, post(first)), post(second))
                   /\ sent' = (notification_sent(first) \/ notification_sent(second))
                   /\ acked' = IF recording /\ sent'
                                THEN Some(analysis.status) ELSE acked
    /\ pc' = IF sent' THEN "save_status" ELSE "metrics"
    /\ UNCHANGED <<runs, env, api_data, analysis, raised, last_status,
                   significant_change, gets, metrics_saved, files, exit_code, sigint,
                   recording, webhook_seen, stored, side_vars>>

\* run() line 531 with send_discord_notification: no POST without a webhook
\* URL or when building the embed raises; otherwise one POST
Notify ==
    /\ pc = "notify"
    /\ IF ~webhook_configured(discord_webhook) \/ create_discord_embed_raises(analysis)
       THEN /\ posts' = posts
            /\ sent' = FALSE
            /\ acked' = acked
       ELSE \E response \in PostOutcomes :
               /\ posts' = Append(posts, [json |-> create_discord_embed(analysis),
                                          response |-> response])
               /\ sent' = notification_sent(response)
               /\ acked' = IF recording /\ response = Some(HttpNoContent)
                            THEN Some(analysis.status) ELSE acked
    /\ pc' = IF sent' THEN "save_status" ELSE "metrics"
    /\ UNCHANGED <<runs, env, api_data, analysis, raised, last_status,
                   significant_change, gets, metrics_saved, files, exit_code, sigint,
                   recording, webhook_seen, stored, side_vars>>

\* SaveStatus without the try/except of lines 465-469
SaveStatus_unguarded ==
    /\ pc = "save_status"
    /\ \E writable \in BOOLEAN :
          /\ status_file' = IF writable THEN Some(analysis.status) ELSE status_file
          /\ stored' = IF /\ recording
                          /\ writable
                          /\ posts[Len(posts)].response = Some(HttpNoContent)
                       THEN Some(analysis.status) ELSE stored
          /\ raised' = ~writable
          /\ pc' = IF writable THEN "metrics" ELSE "exit"
    /\ UNCHANGED <<runs, env, api_data, analysis, last_status, significant_change, sent,
                   gets, posts, metrics_saved, metrics_file, exit_code, sigint,
                   recording, webhook_seen, acked, side_vars>>

\* run() line 532 with save_status (459-469): a failed open leaves the file
SaveStatus ==
    /\ pc = "save_status"
    /\ \E writable \in BOOLEAN :
          /\ status_file' = IF writable THEN Some(analysis.status) ELSE status_file
          /\ stored' = IF /\ recording
                          /\ writable
                          /\ posts[Len(posts)].response = Some(HttpNoContent)
                       THEN Some(analysis.status) ELSE stored
    /\ pc' = "metrics"
    /\ UNCHANGED <<runs, env, locals, metrics_saved, metrics_file, exit_code, sigint,
                   recording, webhook_seen, acked, side_vars>>

\* run() line 540 with save_metrics_history (419-441): an exception while
\* loading or writing is logged and the file stays as it was
SaveMetricsHistory ==
    /\ pc = "metrics"
    /\ \E io \in {"ok", "load_error", "dump_error"} :
          /\ io = "load_error" => metrics_file # None
          /\ metrics_file' = IF io = "ok"
                             THEN Some(next_history(metrics_file, analysis))
                             ELSE metrics_file
          /\ metrics_saved' = (io = "ok")
    /\ pc' = "exit"
    /\ UNCHANGED <<runs, env, locals, status_file, exit_code, sigint, history_vars,
                   side_vars>>

\* main() lines 552-564: the process exits
Exit ==
    /\ pc = "exit"
    /\ exit_code' = Some(main_exit_code(sigint, raised, analysis))
    /\ runs' = runs + 1
    /\ pc' = "idle"
    /\ UNCHANGED <<env, locals, metrics_saved, files, sigint, history_vars, side_vars>>

Next ==
    \/ Start
    \/ Fetch
    \/ Analyze
    \/ Decide
    \/ Notify
    \/ SaveStatus
    \/ SaveMetricsHistory
    \/ Exit

Spec == Init /\ [][Next]_vars

\* ------------------------------------------------------------ runs from a clean directory
\* the runs start with no acc_last_status.txt, and their history is kept
InitFresh ==
    /\ pc = "idle"
    /\ runs = 0
    /\ discord_webhook = None
    /\ force_env = None
    /\ FreshLocals
    /\ status_file = None
    /\ metrics_file \in {None} \cup {Some(Prefill(n)) : n \in {HistoryCap - 1, HistoryCap}}
    /\ exit_code = None
    /\ sigint = "none"
    /\ recording = TRUE
    /\ webhook_seen = FALSE
    /\ acked = None
    /\ stored = None
    /\ again = Unset
    /\ test_analysis = Unset

SpecFresh == InitFresh /\ [][Next]_vars

\* ------------------------------------------------------------ Ctrl-C
\* A KeyboardInterrupt raised inside run() passes every 'except Exception'
\* (lines 115, 414, 439, 468) and reaches 'except KeyboardInterrupt' of main.
Interrupt ==
    /\ pc \in {"fetch", "analyze", "decide", "notify", "save_status", "metrics"}
    /\ sigint = "none"
    /\ sigint' = "raised"
    /\ pc' = "exit"
    /\ UNCHANGED <<runs, env, locals, metrics_saved, files, exit_code, history_vars,
                   side_vars>>

\* the reading as lines 140-145 see it when the try body is interrupted:
\* the bare 'except:' of line 144 sets the age to 999 minutes
interrupted_parse(data) == [data EXCEPT !.date = Date("garbage", 0)]

\* A KeyboardInterrupt raised while the date is parsed (lines 140-143) is
\* caught by the bare 'except:'; analyze_acc_status goes on.
InterruptInDateParse ==
    /\ pc = "analyze"
    /\ sigint = "none"
    /\ Get(api_data, "success", FALSE)
    /\ Get(api_data, "date", None) # None
    /\ The(api_data.date).kind # "empty"
    /\ sigint' = "swallowed"
    /\ IF analyze_raises(interrupted_parse(api_data))
       THEN /\ raised' = TRUE
            /\ analysis' = analysis
            /\ pc' = "exit"
       ELSE /\ raised' = FALSE
            /\ analysis' = analyze_acc_status(interrupted_parse(api_data), runs)
            /\ pc' = "decide"
    /\ UNCHANGED <<runs, env, api_data, last_status, significant_change, sent, gets,
                   posts, metrics_saved, files, exit_code, history_vars, side_vars>>

\* A KeyboardInterrupt raised while get_last_status reads the file (lines
\* 450-453) is caught by the bare 'except:' of line 454; None is returned
\* and run() goes on.
InterruptInGetLastStatus ==
    /\ pc = "decide"
    /\ sigint = "none"
    /\ status_file # None
    /\ sigint' = "swallowed"
    /\ last_status' = None
    /\ significant_change' =
          significant_change_expr(last_status', analysis.status, force_flag(force_env))
    /\ pc' = IF Truthy(significant_change') THEN "notify" ELSE "metrics"
    /\ UNCHANGED <<runs, env, api_data, analysis, raised, sent, gets, posts,
                   metrics_saved, files, exit_code, history_vars, side_vars>>

NextInterrupt ==
    \/ Next
    \/ Interrupt
    \/ InterruptInDateParse
    \/ InterruptInGetLastStatus

SpecInterrupt == Init /\ [][NextInterrupt]_vars

\* ------------------------------------------------------------ the classifier alone
\* analyze_acc_status applied once to each reading fetch_api_data can return
InitAnalyze ==
    /\ pc = "analyze"
    /\ runs = 0
    /\ discord_webhook = None
    /\ force_env = None
    /\ api_data \in {fetch_api_data(outcome, 0) :
                        outcome \in {o \in AllOutcomes : ~fetch_raises(o)}}
    /\ analysis = Unset
    /\ raised = FALSE
    /\ last_status = None
    /\ significant_change = <<>>
    /\ sent = FALSE
    /\ gets = 1
    /\ posts = <<>>
    /\ metrics_saved = FALSE
    /\ status_file = None
    /\ metrics_file = None
    /\ exit_code = None
    /\ sigint = "none"
    /\ recording = FALSE
    /\ webhook_seen = FALSE
    /\ acked = None
    /\ stored = None
    /\ again = Unset
    /\ test_analysis = Unset

NextAnalyze == Analyze

SpecAnalyze == InitAnalyze /\ [][NextAnalyze]_vars

\* ------------------------------------------------------------ the classifier, twice
\* The same reading (the same 'date' string) handed to analyze_acc_status a
\* second time, 'delay' seconds after the first: datetime.now() of line 142
\* has moved on, so the date is that much older.
Later(data, delay) ==
    IF Get(data, "date", None) = None
    THEN data
    ELSE [data EXCEPT !.date = Date(The(data.date).kind, The(data.date).age + delay)]

\* the seconds between the two classifications: none, a quarter of an hour
Delays == {0, 15 * 60}

\* what a call of analyze_acc_status gives its caller
Outcome(data, now) ==
    [raised |-> analyze_raises(data),
     status |-> IF analyze_raises(data) THEN None
                ELSE Some(analyze_acc_status(data, now).status)]

InitReclassify ==
    /\ pc = "analyze"
    /\ runs = 0
    /\ discord_webhook = None
    /\ force_env = None
    /\ api_data \in {fetch_api_data(outcome, 0) :
                        outcome \in {o \in AllOutcomes : ~fetch_raises(o)}}
    /\ analysis = Unset
    /\ raised = FALSE
    /\ last_status = None
    /\ significant_change = <<>>
    /\ sent = FALSE
    /\ gets = 1
    /\ posts = <<>>
    /\ metrics_saved = FALSE
    /\ status_file = None
    /\ metrics_file = None
    /\ exit_code = None
    /\ sigint = "none"
    /\ recording = FALSE
    /\ webhook_seen = FALSE
    /\ acked = None
    /\ stored = None
    /\ again = Unset
    /\ test_analysis = Unset

\* the run writes its state files between the two classifications
Persist ==
    /\ pc = "decide"
    /\ again = Unset
    /\ status_file = None
    /\ status_file' = Some(analysis.status)
    /\ metrics_file' = Some(next_history(metrics_file, analysis))
    /\ UNCHANGED <<pc, runs, env, locals, metrics_saved, exit_code, sigint, history_vars,
                   again, test_analysis>>

\* analyze_acc_status called again on the same reading
Reclassify ==
    /\ pc \in {"decide", "exit"}
    /\ again = Unset
    /\ \E delay \in Delays :
          again' = [delay |-> delay] @@ Outcome(Later(api_data, delay), runs)
    /\ UNCHANGED <<pc, runs, env, locals, metrics_saved, files, exit_code, sigint,
                   history_vars, test_analysis>>

NextReclassify ==
    \/ Analyze
    \/ Persist
    \/ Reclassify

SpecReclassify == InitReclassify /\ [][NextReclassify]_vars

\* ------------------------------------------------------------ test_local.py
\* the thresholds of test_analysis_logic, lines 102-108
test_config ==
    [max_acceptable_ping |-> 200,
     min_servers_expected |-> 1000,
     max_data_age_minutes |-> 20,
     warning_ping |-> 150,
     warning_servers |-> 1200]

\* lines 118-131, in seconds; the age is compared unrounded (line 161)
test_data_age_seconds(date_str) ==
    IF date_str = None \/ The(date_str).kind = "empty"
    THEN 0
    ELSE IF The(date_str).kind = "aware"
         THEN The(date_str).age
         ELSE ParseErrorAge * 60

\* the list 'issues' of lines 152-162, bound only in the branch of raw status 1
test_issues(reading) ==
    LET ping == Get(reading, "ping", None)
        servers == Get(reading, "servers", Some(0))
        age == test_data_age_seconds(Get(reading, "date", None))
    IN  (IF ping = None THEN <<"ping_null">>
         ELSE IF The(ping) > test_config.max_acceptable_ping THEN <<"ping_high">>
         ELSE <<>>)
        \o (IF The(servers) < test_config.min_servers_expected
            THEN <<"servers_low">> ELSE <<>>)
        \o (IF age > test_config.max_data_age_minutes * 60 THEN <<"data_old">> ELSE <<>>)

\* lines 143-169
test_status(reading) ==
    LET api_status == Get(reading, "status", None)
    IN  IF api_status = Some(0) THEN "DOWN"
        ELSE IF api_status = Some(-1) THEN "UNKNOWN"
        ELSE IF api_status # Some(1) THEN "API_ERROR"
        ELSE resolve_status(test_issues(reading))

\* the exceptions 'except Exception' of line 212 catches:
\*   line 158, servers < int with servers None (TypeError);
\*   line 174, 'if issues:' with issues never assigned (UnboundLocalError),
\*     which is every raw status other than 1;
\*   line 203, format(players, ',') with players None (TypeError)
test_analysis_raises(reading) ==
    \/ Get(reading, "status", None) # Some(1)
    \/ Get(reading, "servers", Some(0)) = None
    \/ Get(reading, "players", Some(0)) = None

\* test_analysis_logic, lines 91-214: the analysis, or None
test_analysis_logic(reading) ==
    IF DOMAIN reading = {} THEN None
    ELSE IF test_analysis_raises(reading) THEN None
    ELSE Some([api_status |-> Get(reading, "status", None),
               ping_ms |-> Get(reading, "ping", None),
               servers_count |-> Get(reading, "servers", Some(0)),
               players_count |-> Get(reading, "players", Some(0)),
               data_age_minutes |->
                   Round1(test_data_age_seconds(Get(reading, "date", None))),
               status |-> test_status(reading)])

\* the JSON objects test_acc_api_direct can hand to test_analysis_logic
TestReadings ==
    {Body(st, pg, sv, pl, dt) :
        st \in AllStatus \cup {Absent}, pg \in AllPing \cup {Absent}, sv \in AllServers,
        pl \in AllPlayers \cup {Absent}, dt \in AllDate}

InitTest ==
    /\ pc = "test"
    /\ runs = 0
    /\ discord_webhook = None
    /\ force_env = None
    /\ api_data \in TestReadings
    /\ analysis = Unset
    /\ raised = FALSE
    /\ last_status = None
    /\ significant_change = <<>>
    /\ sent = FALSE
    /\ gets = 1
    /\ posts = <<>>
    /\ metrics_saved = FALSE
    /\ status_file = None
    /\ metrics_file = None
    /\ exit_code = None
    /\ sigint = "none"
    /\ recording = FALSE
    /\ webhook_seen = FALSE
    /\ acked = None
    /\ stored = None
    /\ again = Unset
    /\ test_analysis = Unset

\* quick_test / main of test_local.py: analysis = test_analysis_logic(api_data)
TestAnalysisLogic ==
    /\ pc = "test"
    /\ test_analysis' = test_analysis_logic(api_data)
    /\ pc' = "tested"
    /\ UNCHANGED <<runs, env, locals, metrics_saved, files, exit_code, sigint,
                   history_vars, again>>

NextTest == TestAnalysisLogic

SpecTest == InitTest /\ [][NextTest]_vars

TypeOK ==
    /\ pc \in {"idle", "fetch", "analyze", "decide", "notify", "save_status", "metrics",
              "exit", "test", "tested"}
    /\ runs \in 0..MaxRuns
    /\ gets \in 0..1
    /\ Len(posts) <= 1

\* ============================================================ claims
\* analyze_acc_status has returned an Analysis in this invocation
Analyzed == "status" \in DOMAIN analysis
\* the reading was fetched successfully
Fetched == Get(api_data, "success", FALSE)
RawStatus == Get(api_data, "status", None)
\* run() is past the 'if significant_change' test
Decided == Analyzed /\ pc \in {"notify", "save_status", "metrics", "exit", "idle"}
\* run() is past the notification step
Notified == Analyzed /\ pc \in {"save_status", "metrics", "exit", "idle"}
Critical == {"DOWN", "API_ERROR"}

\* the four issue predicates, read off the reading and the Analysis' data age
PingMissing == Get(api_data, "ping", None) = None
PingHigh == ~PingMissing /\ The(api_data.ping) > max_acceptable_ping
ServersLow == The(Get(api_data, "servers", Some(0))) < min_servers_expected
DataOld == analysis.data_age_minutes > max_data_age_minutes * 10
NumIssues ==
    Cardinality({n \in {"ping missing", "ping high", "servers low", "data old"} :
        \/ n = "ping missing" /\ PingMissing
        \/ n = "ping high" /\ PingHigh
        \/ n = "servers low" /\ ServersLow
        \/ n = "data old" /\ DataOld})

\* C1: for every successfully fetched reading with raw status 1 (and a
\* server count that is a number, which the servers-low predicate needs),
\* analyze_acc_status returns, and the status is UP with no issue, DEGRADED
\* with exactly one issue that is ping high or servers low, and DOWN with
\* ping missing alone, data old alone or two or more issues (data age is the
\* Analysis' data_age_minutes).
C1_UpPolicy ==
    (/\ pc # "analyze"
     /\ Fetched
     /\ RawStatus = Some(1)
     /\ Get(api_data, "servers", Some(0)) # None)
    => /\ ~raised
       /\ Analyzed
       /\ analysis.status =
             IF NumIssues = 0 THEN "UP"
             ELSE IF NumIssues = 1 /\ (PingHigh \/ ServersLow) THEN "DEGRADED"
             ELSE "DOWN"

C1_Witness ==
    /\ Analyzed /\ Fetched /\ RawStatus = Some(1)
    /\ NumIssues = 1 /\ PingMissing
    /\ analysis.status = "DOWN"

\* C2: when a prior status exists, equals the current status, the current
\* status is neither DOWN nor API_ERROR and the force flag is not set, the
\* notify decision is false and no webhook POST is made.
C2_NoNotifyWhenUnchanged ==
    (/\ Decided
     /\ last_status = Some(analysis.status)
     /\ analysis.status \notin Critical
     /\ ~force_flag(force_env))
    => (~Truthy(significant_change) /\ posts = <<>>)

\* C3: the notify decision is true whenever no prior status exists, the
\* current status differs from the prior one, the current status is DOWN or
\* API_ERROR, or the force flag is set.
C3_NotifyCases ==
    (/\ Decided
     /\ \/ last_status = None
        \/ last_status # Some(analysis.status)
        \/ analysis.status \in Critical
        \/ force_flag(force_env))
    => Truthy(significant_change)

C3_Witness ==
    /\ pc = "notify"
    /\ last_status = Some("UP")
    /\ analysis.status = "DOWN"
    /\ ~force_flag(force_env)
    /\ Truthy(significant_change)

\* C4: acc_last_status.txt changes only in the save_status step of a run
\* whose notify decision was true and whose single webhook POST returned 204,
\* and then it becomes the current status; every other step, and so every
\* other run, leaves it unchanged.
C4_StatusSavedOnlyAfter204 ==
    [][status_file' # status_file =>
          /\ pc = "save_status"
          /\ Truthy(significant_change)
          /\ Len(posts) = 1
          /\ posts[1].response = Some(HttpNoContent)
          /\ status_file' = Some(analysis.status)]_vars

C4_Witness ==
    /\ pc = "metrics"
    /\ sent
    /\ posts[1].response = Some(HttpNoContent)
    /\ last_status = Some("UP")
    /\ analysis.status = "DEGRADED"
    /\ status_file = Some("DEGRADED")

\* C5: every run whose Analysis status is DOWN or API_ERROR (fetch failures
\* included) and that has a webhook URL makes one webhook POST carrying the
\* rendered status.
C5_CriticalAlwaysPosted ==
    (Notified /\ analysis.status \in Critical /\ webhook_configured(discord_webhook)) =>
        /\ Len(posts) = 1
        /\ posts[1].json.state_detected = analysis.status

\* C6: for every successfully fetched reading with raw status 0,
\* analyze_acc_status returns an Analysis with status DOWN, whatever ping,
\* servers, players and date are.
C6_RawDownIsDown ==
    (pc # "analyze" /\ Fetched /\ RawStatus = Some(0)) =>
        (~raised /\ Analyzed /\ analysis.status = "DOWN")

\* C7: no exception leaves fetch_api_data: once the GET has been made
\* api_data is a dict, and when it reports a failure the run does not raise
\* and its Analysis has status API_ERROR.
C7_FetchFailureIsApiError ==
    gets = 1 =>
        /\ "success" \in DOMAIN api_data
        /\ (~api_data.success /\ pc # "analyze") =>
              (~raised /\ Analyzed /\ analysis.status = "API_ERROR")

C7_Witness ==
    /\ pc = "idle"
    /\ gets = 1
    /\ ~api_data.success
    /\ api_data.error = "Unexpected error"
    /\ analysis.status = "API_ERROR"
    /\ ~raised

\* C8: for a fetch failure the Analysis has an issues list holding exactly
\* the fetch error reason.
C8_FailureIssuesIsReason ==
    (Analyzed /\ ~Fetched) =>
        /\ "issues" \in DOMAIN analysis
        /\ analysis.issues = <<api_data.error>>

\* the 'date' member is absent, null, or a string fromisoformat rejects
DateUnusable ==
    \/ Get(api_data, "date", None) = None
    \/ The(api_data.date).kind \in {"empty", "garbage"}

\* C9: for a successfully fetched raw-Up reading whose date is absent or
\* unparsable, the data age is above max_data_age_minutes and the status is
\* DOWN.
C9_UnusableDateIsStale ==
    (Analyzed /\ Fetched /\ RawStatus = Some(1) /\ DateUnusable) =>
        /\ analysis.data_age_minutes > max_data_age_minutes * 10
        /\ analysis.status = "DOWN"

\* the metrics history, empty while the file does not exist
History == IF metrics_file = None THEN <<>> ELSE The(metrics_file)

\* C10: the metrics history never holds more than 200 entries and is ordered
\* oldest first; it changes only in save_metrics_history, and a save that
\* succeeds onto a full history leaves 200 entries, drops the former oldest,
\* keeps the order of the other 199 and puts the new Analysis last (a save
\* onto a shorter history appends).
C10_HistoryCapped ==
    /\ [](/\ Len(History) <= HistoryCap
          /\ \A i \in 1..(Len(History) - 1) :
                History[i].timestamp < History[i + 1].timestamp)
    /\ [][/\ metrics_file' # metrics_file => (pc = "metrics" /\ metrics_saved')
          /\ (pc = "metrics" /\ metrics_saved') =>
                LET old == History
                    new == The(metrics_file')
                IN  /\ new[Len(new)] = analysis
                    /\ IF Len(old) = HistoryCap
                       THEN /\ Len(new) = HistoryCap
                            /\ \A i \in 1..(HistoryCap - 1) : new[i] = old[i + 1]
                       ELSE new = Append(old, analysis)]_vars

C10_Witness ==
    /\ pc = "exit"
    /\ metrics_saved
    /\ runs = 0
    /\ Len(History) = HistoryCap
    /\ History[HistoryCap] = analysis
    /\ History[1].timestamp = 1 - HistoryCap
\* the process of the last invocation has exited
Exited == pc = "idle" /\ exit_code # None

\* C11: the process exits with 0 when the Analysis status is UP, DEGRADED or
\* DOWN, with 1 when it is UNKNOWN or API_ERROR or when run() raised an
\* unexpected exception, and with 130 when the user interrupted the run.
C11_ExitCodes ==
    Exited =>
        exit_code = Some(IF sigint # "none" THEN ExitInterrupted
                         ELSE IF raised THEN 1
                         ELSE IF analysis.status \in {"UP", "DEGRADED", "DOWN"} THEN 0
                         ELSE 1)

\* C12: for every successfully fetched reading, analyze_acc_status returns
\* status UNKNOWN when the raw status is -1 and API_ERROR when it is anything
\* other than 1, 0 and -1 (null included), whatever ping, servers and data
\* age are.
C12_UnknownAndOtherRaw ==
    (pc # "analyze" /\ Fetched /\ RawStatus \notin {Some(1), Some(0)}) =>
        /\ ~raised
        /\ Analyzed
        /\ analysis.status = IF RawStatus = Some(-1) THEN "UNKNOWN" ELSE "API_ERROR"

\* the Analysis lists an issue with this message
HasIssue(text) == \E i \in DOMAIN analysis.issues : analysis.issues[i].text = text
PingWarning ==
    /\ ~PingMissing
    /\ The(api_data.ping) > warning_ping
    /\ The(api_data.ping) <= max_acceptable_ping
ServersWarning ==
    /\ The(Get(api_data, "servers", Some(0))) >= min_servers_expected
    /\ The(Get(api_data, "servers", Some(0))) < warning_servers

\* C13: for a successfully fetched raw-Up reading with none of the four
\* critical issues, the status is UP; a ping in (warning_ping,
\* max_acceptable_ping] adds the ping warning to issues and a server count
\* in [min_servers_expected, warning_servers) adds the servers warning.
C13_WarningsKeepUp ==
    (/\ pc # "analyze"
     /\ Fetched
     /\ RawStatus = Some(1)
     /\ Get(api_data, "servers", Some(0)) # None
     /\ NumIssues = 0)
    => /\ analysis.status = "UP"
       /\ PingWarning => HasIssue("ACC ping warning")
       /\ ServersWarning => HasIssue("ACC servers count decreasing")
       /\ Len(analysis.issues) =
             (IF PingWarning THEN 1 ELSE 0) + (IF ServersWarning THEN 1 ELSE 0)

C13_Witness ==
    /\ Analyzed
    /\ Fetched
    /\ RawStatus = Some(1)
    /\ api_data.ping = Some(warning_ping + 1)
    /\ Get(api_data, "servers", Some(0)) = Some(warning_servers - 1)
    /\ analysis.status = "UP"
    /\ HasIssue("ACC ping warning")
    /\ HasIssue("ACC servers count decreasing")

\* C18: for every successfully fetched reading, an Analysis with status
\* DEGRADED, DOWN or UNKNOWN has a non-empty issues list; and a raw-Up
\* reading with ping <= warning_ping, servers >= warning_servers and data age
\* <= max_data_age_minutes has status UP and an empty issues list.
C18_IssuesAgreeWithStatus ==
    /\ (Analyzed /\ Fetched /\ analysis.status \in {"DEGRADED", "DOWN", "UNKNOWN"}) =>
          Len(analysis.issues) > 0
    /\ (/\ pc # "analyze"
        /\ Fetched
        /\ RawStatus = Some(1)
        /\ ~PingMissing
        /\ The(api_data.ping) <= warning_ping
        /\ Get(api_data, "servers", Some(0)) # None
        /\ The(Get(api_data, "servers", Some(0))) >= warning_servers
        /\ data_age_tenths(Get(api_data, "date", None)) <= max_data_age_minutes * 10)
       => /\ Analyzed
          /\ analysis.status = "UP"
          /\ analysis.issues = <<>>

C18_Witness ==
    /\ Analyzed
    /\ Fetched
    /\ RawStatus = Some(-1)
    /\ analysis.status = "UNKNOWN"
    /\ Len(analysis.issues) = 1
    /\ HasIssue("ACC servers status unknown (API)")

\* the order of the steps of one run: fetch, classify, read the last status
\* and decide, notify, write the state, exit
StepOrder ==
    {<<"idle", "fetch">>, <<"fetch", "analyze">>, <<"analyze", "decide">>,
     <<"analyze", "exit">>, <<"decide", "notify">>, <<"decide", "metrics">>,
     <<"notify", "save_status">>, <<"notify", "metrics">>,
     <<"save_status", "metrics">>, <<"metrics", "exit">>, <<"exit", "idle">>}

\* C15: every run takes its steps in the fixed order fetch, classify, decide,
\* notify (when decided), write state; it makes exactly one GET and one
\* classification and at most one POST, repeats no network call, and writes
\* no persisted file before the notification step is over.
C15_FixedOrder ==
    /\ [](/\ pc \notin {"idle", "fetch"} => gets = 1
          /\ Len(posts) <= 1
          /\ pc \in {"fetch", "analyze"} => analysis = Unset)
    /\ [][/\ <<pc, pc'>> \in StepOrder
          /\ gets' # gets => (pc = "fetch" /\ gets' = 1) \/ (pc = "idle" /\ gets' = 0)
          /\ posts' # posts =>
                (pc = "notify" /\ Len(posts') = 1) \/ (pc = "idle" /\ posts' = <<>>)
          /\ analysis' # analysis => pc \in {"analyze", "idle"}
          /\ status_file' # status_file => pc = "save_status"
          /\ metrics_file' # metrics_file => pc = "metrics"]_vars

C15_Witness ==
    /\ pc = "exit"
    /\ gets = 1
    /\ Len(posts) = 1
    /\ sent
    /\ status_file = Some(analysis.status)
    /\ metrics_saved

\* C16: once the reading is classified, nothing aborts the run: whether the
\* notification fails (no webhook, a response other than 204, an exception),
\* the last-status file cannot be read or written, or the metrics history
\* cannot be loaded or written, run() raises nothing, goes through the
\* metrics-history step and returns the Analysis, and the exit code is 0 for
\* UP, DEGRADED and DOWN and 1 for UNKNOWN and API_ERROR.
C16_FailuresDoNotAbort ==
    [][/\ pc \in {"decide", "notify", "save_status", "metrics"} =>
             /\ ~raised'
             /\ analysis' = analysis
             /\ pc' = "exit" => pc = "metrics"
       /\ (pc = "exit" /\ Analyzed) =>
             /\ ~raised
             /\ exit_code' = Some(IF analysis.status \in {"UP", "DEGRADED", "DOWN"}
                                  THEN 0 ELSE 1)]_vars

C16_Witness ==
    /\ Exited
    /\ Analyzed
    /\ webhook_configured(discord_webhook)
    /\ Len(posts) = 1
    /\ posts[1].response = None
    /\ ~metrics_saved
    /\ exit_code = Some(0)

\* C14: two classifications of the same reading under the same thresholds
\* give the same result (both raise, or both return the same status),
\* whatever the state files hold and however long after the first the
\* second is made.
C14_StatusDeterministic ==
    again # Unset =>
        /\ again.raised = raised
        /\ ~raised => again.status = Some(analysis.status)

C19_NoWebhookNoState ==
    ~webhook_seen =>
        /\ posts = <<>>
        /\ status_file = None
        /\ last_status = None
        /\ Exited => (metrics_saved /\ History[Len(History)] = analysis)

\* C20: for every non-empty API reading, test_analysis_logic returns an
\* analysis (not None) whose status is DOWN for raw status 0, UNKNOWN for
\* -1, API_ERROR for any other value that is not 1, and the result of the
\* issue policy for 1.
C20_HarnessClassifies ==
    (pc = "tested" /\ DOMAIN api_data # {}) =>
        /\ test_analysis # None
        /\ The(test_analysis).status =
              (IF RawStatus = Some(0) THEN "DOWN"
               ELSE IF RawStatus = Some(-1) THEN "UNKNOWN"
               ELSE IF RawStatus # Some(1) THEN "API_ERROR"
               ELSE resolve_status(test_issues(api_data)))

====
